---- MODULE Spec2Model ----
(***************************************************************************)
(* Idempotent extraction API: the submission gate (POST /extract), the     *)
(* fetch endpoint (GET /extract/{id}), the job store, the work queue and   *)
(* the single extraction worker with its per-attempt timeout thread and    *)
(* its in-memory retry counter.                                            *)
(***************************************************************************)
EXTENDS Integers, Sequences, FiniteSets, TLC

(* ------------------------------------------------------------------ *)
(* Bounds of the model                                                  *)
(* ------------------------------------------------------------------ *)
MaxSubmits == 2       \* POST calls in one behaviour
MaxFetches == 1       \* GET calls in one behaviour
MaxRetriesCfg == 1    \* WORKER_MAX_RETRIES is drawn from 0..MaxRetriesCfg
MaxPollCfg == 1       \* GET_POLL_ATTEMPTS is drawn from 0..MaxPollCfg
MaxRestarts == 1      \* restarts of the process in one behaviour
MaxGroups == 2        \* three-digit groups in a matched number
MaxLines == 2         \* lines in the text given to _extract_currency_and_amount
MaxLifeCalls == 2     \* calls of worker.start and worker.stop after the first start

Callers == {"h1", "h2"}       \* request-handling threads serving POST
Fetchers == {"g1"}            \* request-handling threads serving GET
Ids == 1..MaxSubmits          \* request ids, one generated per insert attempt
Keys == {"k1", "k2"}          \* idempotency keys

(* ------------------------------------------------------------------ *)
(* Values                                                               *)
(* ------------------------------------------------------------------ *)
Range(f) == {f[i] : i \in DOMAIN f}

\* A nullable column or Optional value: None, or Some(x).
None == <<>>
Some(x) == <<x>>

\* Documents.  marker: the text contains <<TRIGGER_EXTRACTOR_FAILURE>>;
\* upper: the doc-type words found in text.upper(); number, date, amount,
\* currency: what the heuristic field extractors find in the text.
Texts ==
  { [marker |-> FALSE, upper |-> {"INVOICE"}, number |-> Some("INV-1"),
     date |-> None, amount |-> Some(45), currency |-> Some("USD")],
    [marker |-> TRUE, upper |-> {"RECEIPT"}, number |-> None,
     date |-> None, amount |-> Some(40), currency |-> None] }

ResultFields == {"doc_type", "invoice_number", "invoice_date", "total_amount", "currency"}
ErrorFields == {"error_code", "error_message"}

\* models.py: a freshly constructed ExtractionRequest row (main.py 85-90)
NewRow(id, key, text) ==
  [id |-> id, idempotency_key |-> key, status |-> "PENDING", document_text |-> text,
   doc_type |-> None, invoice_number |-> None, invoice_date |-> None,
   total_amount |-> None, currency |-> None,
   error_code |-> None, error_message |-> None]

(* ------------------------------------------------------------------ *)
(* extractor.py                                                         *)
(* ------------------------------------------------------------------ *)
_detect_doc_type(text) ==
  IF "INVOICE" \in text.upper THEN "invoice"
  ELSE IF "RECEIPT" \in text.upper THEN "receipt"
  ELSE "unknown"

\* The one typed failure the heuristic engine raises.
\* An exception: its class, the code and message of an ExtractorFailure, and
\* str(ex).
ExtractorFailure ==
  [type |-> "ExtractorFailure", code |-> "EXTRACTOR_TIMEOUT",
   message |-> "Extraction process timed out after 30 seconds",
   str |-> "EXTRACTOR_TIMEOUT: Extraction process timed out after 30 seconds"]

\* The outcome of a call: [ok |-> TRUE, value |-> v] or [ok |-> FALSE, error |-> e]
Return(v) == [ok |-> TRUE, value |-> v]
Raise(e) == [ok |-> FALSE, error |-> e]

extract_from_text(text) ==
  IF text.marker THEN Raise(ExtractorFailure)
  ELSE Return([doc_type |-> Some(_detect_doc_type(text)),
               invoice_number |-> text.number,
               invoice_date |-> text.date,
               total_amount |-> text.amount,
               currency |-> text.currency])


(* ------------------------------------------------------------------ *)
(* extractor.py: texts as sequences of characters                       *)
(* ------------------------------------------------------------------ *)
Digits == <<"0", "1", "2", "3", "4", "5", "6", "7", "8", "9">>
Lowers == <<"a", "b", "c", "d", "e", "f", "g", "h", "i", "j", "k", "l", "m", "n", "o", "p", "q", "r", "s", "t", "u", "v", "w", "x", "y", "z">>
Uppers == <<"A", "B", "C", "D", "E", "F", "G", "H", "I", "J", "K", "L", "M", "N", "O", "P", "Q", "R", "S", "T", "U", "V", "W", "X", "Y", "Z">>
DigitSet == Range(Digits)
AlphaSet == Range(Lowers) \cup Range(Uppers)
\* the characters \w and \s of the patterns match, among those of the texts
WordSet == AlphaSet \cup DigitSet \cup {"_"}
SpaceSet == {" ", "\t"}

\* int() of one digit, and of a run of digits
DigitVal(c) == (CHOOSE i \in DOMAIN Digits : Digits[i] = c) - 1
RECURSIVE int(_)
int(ds) == IF ds = <<>> THEN 0 ELSE 10 * int(SubSeq(ds, 1, Len(ds) - 1)) + DigitVal(ds[Len(ds)])

\* str.lower()
lower_char(c) ==
  IF c \in Range(Uppers) THEN Lowers[CHOOSE i \in DOMAIN Uppers : Uppers[i] = c] ELSE c
lower(w) == [i \in DOMAIN w |-> lower_char(w[i])]

\* \b before position i of t
WordAt(t, i) == i \in DOMAIN t /\ t[i] \in WordSet
Boundary(t, i) == WordAt(t, i - 1) # WordAt(t, i)

\* the length of the longest run of characters of S in t from position i
RunLen(t, i, S) ==
  IF i > Len(t) THEN 0
  ELSE CHOOSE n \in 0..(Len(t) - i + 1) :
         /\ \A k \in 0..(n - 1) : t[i + k] \in S
         /\ (i + n > Len(t) \/ t[i + n] \notin S)

\* lines 16-29
MONTHS ==
  (<<"j", "a", "n", "u", "a", "r", "y">> :> 1) @@
  (<<"f", "e", "b", "r", "u", "a", "r", "y">> :> 2) @@
  (<<"m", "a", "r", "c", "h">> :> 3) @@
  (<<"a", "p", "r", "i", "l">> :> 4) @@
  (<<"m", "a", "y">> :> 5) @@
  (<<"j", "u", "n", "e">> :> 6) @@
  (<<"j", "u", "l", "y">> :> 7) @@
  (<<"a", "u", "g", "u", "s", "t">> :> 8) @@
  (<<"s", "e", "p", "t", "e", "m", "b", "e", "r">> :> 9) @@
  (<<"o", "c", "t", "o", "b", "e", "r">> :> 10) @@
  (<<"n", "o", "v", "e", "m", "b", "e", "r">> :> 11) @@
  (<<"d", "e", "c", "e", "m", "b", "e", "r">> :> 12)

\* line 75: \b(\d{4})-(\d{2})-(\d{2})\b matches t at position i
IsoAt(t, i) ==
  /\ i + 9 <= Len(t)
  /\ Boundary(t, i)
  /\ \A k \in {0, 1, 2, 3, 5, 6, 8, 9} : t[i + k] \in DigitSet
  /\ t[i + 4] = "-" /\ t[i + 7] = "-"
  /\ Boundary(t, i + 10)

\* line 79: \b([A-Za-z]{3,9})\s+(\d{1,2}),\s*(\d{4})\b matches t at position i;
\* the groups of the match, as positions: the name is t[i..sp-1], the day
\* t[day..comma-1], the year t[year..year+3]
MonthGroups(t, i) ==
  LET sp == i + RunLen(t, i, AlphaSet)
      day == sp + RunLen(t, sp, SpaceSet)
      comma == day + RunLen(t, day, DigitSet)
      year == comma + 1 + RunLen(t, comma + 1, SpaceSet)
  IN  [sp |-> sp, day |-> day, comma |-> comma, year |-> year]
MonthAt(t, i) ==
  LET g == MonthGroups(t, i)
  IN  /\ Boundary(t, i)
      /\ g.sp - i \in 3..9
      /\ g.day - g.sp >= 1
      /\ g.comma - g.day \in 1..2
      /\ g.comma <= Len(t) /\ t[g.comma] = ","
      /\ RunLen(t, g.year, DigitSet) >= 4
      /\ Boundary(t, g.year + 4)

\* re.search: the leftmost match
First(S) == CHOOSE i \in S : \A j \in S : i <= j

\* datetime(year, month, day) raises ValueError or not
IsLeap(y) == y % 4 = 0 /\ (y % 100 # 0 \/ y % 400 = 0)
DaysIn(y, m) ==
  IF m = 2 THEN (IF IsLeap(y) THEN 29 ELSE 28)
  ELSE IF m \in {4, 6, 9, 11} THEN 30 ELSE 31
ValidDate(y, m, d) == y \in 1..9999 /\ m \in 1..12 /\ d \in 1..DaysIn(y, m)

\* strftime("%Y-%m-%d"), the year having four digits
Pad(n, width) == [k \in 1..width |-> Digits[((n \div (10 ^ (width - k))) % 10) + 1]]
strftime(y, m, d) == Pad(y, 4) \o <<"-">> \o Pad(m, 2) \o <<"-">> \o Pad(d, 2)

\* lines 73-91
_extract_date_iso(text) ==
  LET iso == {i \in DOMAIN text : IsoAt(text, i)}
      m2 == {i \in DOMAIN text : MonthAt(text, i)}
  IN  IF iso # {} THEN Some(SubSeq(text, First(iso), First(iso) + 9))
      ELSE IF m2 # {}
        THEN LET g == MonthGroups(text, First(m2))
                 month_name == lower(SubSeq(text, First(m2), g.sp - 1))
                 day == int(SubSeq(text, g.day, g.comma - 1))
                 year == int(SubSeq(text, g.year, g.year + 3))
             IN  IF month_name \in DOMAIN MONTHS
                   THEN IF ValidDate(year, MONTHS[month_name], day)
                          THEN Some(strftime(year, MONTHS[month_name], day))
                          ELSE None
                   ELSE None
      ELSE None

\* str.count, str.rfind (0 when absent), str.replace of one character
Count(str, c) == Cardinality({i \in DOMAIN str : str[i] = c})
rfind(str, c) ==
  IF c \in Range(str) THEN CHOOSE i \in DOMAIN str : str[i] = c /\ \A j \in DOMAIN str : str[j] = c => j <= i
  ELSE 0
RECURSIVE replace(_, _, _)
replace(str, c, by) ==
  IF str = <<>> THEN <<>>
  ELSE (IF Head(str) = c THEN by ELSE <<Head(str)>>) \o replace(Tail(str), c, by)

\* A float, as the digits of its whole part (no leading zero) and of its
\* fraction (no trailing zero): two floats are equal when both are.
RECURSIVE StripLeading(_)
StripLeading(ds) == IF ds # <<>> /\ Head(ds) = "0" THEN StripLeading(Tail(ds)) ELSE ds
RECURSIVE StripTrailing(_)
StripTrailing(ds) ==
  IF ds # <<>> /\ ds[Len(ds)] = "0" THEN StripTrailing(SubSeq(ds, 1, Len(ds) - 1)) ELSE ds
Float(whole, frac) == [whole |-> StripLeading(whole), frac |-> StripTrailing(frac)]

\* float(str) of a text of digits, marks and blanks that begins and ends with
\* a digit: the number, or None for ValueError
float(str) ==
  IF Range(str) \subseteq DigitSet \cup {"."} /\ Count(str, ".") <= 1
    THEN IF "." \in Range(str)
           THEN Some(Float(SubSeq(str, 1, rfind(str, ".") - 1),
                           SubSeq(str, rfind(str, ".") + 1, Len(str))))
           ELSE Some(Float(str, <<>>))
    ELSE None

\* The mark that is last is always taken for the decimal point.
normalized_NoSwap(raw_number) == replace(replace(raw_number, " ", <<>>), ",", <<>>)

\* lines 157-162 and 183-188
normalized(raw_number) ==
  IF /\ "," \in Range(raw_number) /\ "." \in Range(raw_number)
     /\ rfind(raw_number, ",") > rfind(raw_number, ".")
    THEN replace(replace(raw_number, ".", <<>>), ",", <<".">>)
    ELSE replace(replace(raw_number, " ", <<>>), ",", <<>>)

\* lines 163-166 and 189-192: the amount of a matched number, or None when
\* float raises and the match is skipped
amount_val(raw_number) == float(normalized(raw_number))

\* the order of two floats: by the length of the whole part, then digit by
\* digit
DigitAt(ds, i) == IF i \in DOMAIN ds THEN DigitVal(ds[i]) ELSE 0
Greater(a, b) ==
  IF Len(a.whole) # Len(b.whole) THEN Len(a.whole) > Len(b.whole)
  ELSE LET x == a.whole \o a.frac
           y == b.whole \o b.frac
       IN  \E i \in DOMAIN x :
             /\ DigitAt(x, i) > DigitAt(y, i)
             /\ \A j \in 1..(i - 1) : DigitAt(x, j) = DigitAt(y, j)

\* lines 168-174 and 194-200: the currency of a symbol; the euro and pound
\* signs are written by name
SymbolCurrency(symbol) ==
  IF symbol = "euro" THEN "EUR" ELSE IF symbol = "$" THEN "USD" ELSE "GBP"

\* lines 119-125: the lines of a group not yet among the candidates are added
RECURSIVE AddGroup(_, _)
AddGroup(candidates, group) ==
  IF group = <<>> THEN candidates
  ELSE AddGroup(IF Head(group) \in Range(candidates) THEN candidates
                ELSE Append(candidates, Head(group)), Tail(group))

\* lines 109-125 and 128-142
Candidates(normalized_lines) ==
  LET totals == SelectSeq(normalized_lines, LAMBDA l : l.total)
      totals_with_currency == SelectSeq(totals, LAMBDA l : l.symbol \/ l.code # None)
      by_hint == AddGroup(AddGroup(AddGroup(<<>>,
                   IF totals_with_currency # <<>> THEN totals_with_currency ELSE totals),
                   SelectSeq(normalized_lines, LAMBDA l : l.symbol)),
                   SelectSeq(normalized_lines, LAMBDA l : l.code # None))
      has_any_currency_hint ==
        \E i \in DOMAIN normalized_lines :
          normalized_lines[i].symbol \/ normalized_lines[i].code # None
  IN  IF has_any_currency_hint THEN by_hint
      ELSE AddGroup(by_hint, SelectSeq(normalized_lines, LAMBDA l : l.gen # <<>>))

\* lines 154-175 (anchored) and 180-203: the pairs the matches on one line give
RECURSIVE Pairs(_, _, _)
Pairs(matches, line_code, anchored) ==
  IF matches = <<>> THEN <<>>
  ELSE LET m == Head(matches)
           currency_for_amount ==
             IF anchored
               THEN (IF line_code # None THEN line_code ELSE Some(SymbolCurrency(m.symbol[1])))
               ELSE (IF m.symbol # None THEN Some(SymbolCurrency(m.symbol[1])) ELSE line_code)
       IN  (IF amount_val(m.raw) = None THEN <<>>
            ELSE <<[amount |-> amount_val(m.raw)[1], currency |-> currency_for_amount]>>)
           \o Pairs(Tail(matches), line_code, anchored)

\* lines 146-203
RECURSIVE parsed_candidates(_)
parsed_candidates(candidates) ==
  IF candidates = <<>> THEN <<>>
  ELSE LET cand == Head(candidates)
       IN  (IF cand.sym # <<>> THEN Pairs(cand.sym, cand.code, TRUE)
            ELSE Pairs(cand.gen, cand.code, FALSE))
           \o parsed_candidates(Tail(candidates))

\* max that keeps the last of equal amounts.
RECURSIVE max_Last(_)
max_Last(pairs) ==
  IF Len(pairs) = 1 THEN pairs[1]
  ELSE LET best == max_Last(SubSeq(pairs, 1, Len(pairs) - 1))
       IN  IF Greater(best.amount, pairs[Len(pairs)].amount) THEN best ELSE pairs[Len(pairs)]

\* line 209: max(parsed_candidates, key=lambda x: x[0]) keeps the first of
\* equal amounts
RECURSIVE max(_)
max(pairs) ==
  IF Len(pairs) = 1 THEN pairs[1]
  ELSE LET best == max(SubSeq(pairs, 1, Len(pairs) - 1))
       IN  IF Greater(pairs[Len(pairs)].amount, best.amount) THEN pairs[Len(pairs)] ELSE best

\* lines 94-210
_extract_currency_and_amount(normalized_lines) ==
  LET parsed == parsed_candidates(Candidates(normalized_lines))
  IN  IF parsed = <<>> THEN [currency |-> None, total_amount |-> None]
      ELSE [currency |-> max(parsed).currency, total_amount |-> Some(max(parsed).amount)]

(* ------------------------------------------------------------------ *)
(* llm_extractor.py: the external backend, seen from run_extractor      *)
(* ------------------------------------------------------------------ *)
\* What one call of extract_with_llm may give: a failure (dependencies or
\* credentials missing), the empty fields of its final fallback, or fields.
LLMOutcomes ==
  { Raise([type |-> "Exception", code |-> "", message |-> "",
           str |-> "OPENAI_API_KEY not set"]),
    Return([doc_type |-> None, invoice_number |-> None, invoice_date |-> None,
            total_amount |-> None, currency |-> None]),
    Return([doc_type |-> Some("receipt"), invoice_number |-> Some(""),
            invoice_date |-> None, total_amount |-> Some(0), currency |-> Some("EUR")]) }

\* Python truthiness of an Optional[str]: None and "" are falsy.
Truthy(v) == v # None /\ v # Some("")
\* a or b
Or(a, b) == IF Truthy(a) THEN a ELSE b

(* ------------------------------------------------------------------ *)
(* State                                                                *)
(* ------------------------------------------------------------------ *)
VARIABLES
  jobs,          \* the committed rows of extraction_requests: id -> row
  dblock,        \* the handlers holding the database write lock (at most one)
  nextId,        \* the next request id _generate_request_id gives
  q,             \* worker._q
  attempts,      \* worker._attempts: id -> count, absent ids count 0
  max_retries,   \* worker._max_retries
  backend,       \* worker._backend
  poll_attempts, \* GET_POLL_ATTEMPTS
  sub,           \* the POST handlers: pc, body, req_id, response
  calls,         \* POST calls begun
  returned,      \* key -> the request ids POST responses gave for it
  enq,           \* key -> number of enqueues made by POST handlers
  wpc,           \* where the worker thread is
  wid,           \* the request_id the worker dequeued
  req,           \* the worker session's ExtractionRequest object
  thr,           \* the attempt thread: is_alive() and its result/error container
  abandoned,     \* attempt threads still running after their join timed out
  tried,         \* id -> number of extraction attempts decided
  hung,          \* id -> every attempt decided so far was a timeout
  allfail,       \* id -> every attempt decided so far failed
  ex,            \* the exception the worker caught in this attempt, if any
  fet,           \* the GET handlers: pc, request_id, req, polls left
  gets,          \* GET calls begun
  out,           \* the HTTP response the last step gave, if it gave one
  stop_event,    \* worker._stop_event is set
  restarts,      \* process restarts so far
  running,       \* the _run threads that are alive
  lifecycle,     \* the calls of start and stop made on the worker, in order
  call           \* a call of one function of the extraction engine, and its outcome

vars == <<jobs, dblock, nextId, q, attempts, max_retries, backend, poll_attempts,
          sub, calls, returned, enq, wpc, wid, req, thr, abandoned, tried, hung, allfail, ex,
          fet, gets, out, stop_event, restarts, running, lifecycle, call>>

dbVars == <<jobs, dblock>>
cfgVars == <<max_retries, backend, poll_attempts>>
subVars == <<sub, calls, returned, enq, nextId>>
workerVars == <<q, wpc, wid, req, thr, abandoned, attempts, tried, hung, allfail, ex>>
fetVars == <<fet, gets>>
lifeVars == <<stop_event, restarts, running, lifecycle>>

NoRow == [id |-> 0]
NoThread == [alive |-> FALSE, out |-> None]
Running == [alive |-> TRUE, out |-> None]
Ended(outcome) == [alive |-> FALSE, out |-> Some(outcome)]
\* out when the last step answered no request
NoResponse ==
  [op |-> "none", key |-> "", via |-> "none", request_id |-> 0, status |-> "NONE",
   result |-> None, error |-> None]
IdleSub == [pc |-> "idle", key |-> "", text |-> None, req_id |-> 0]

IdleFet == [pc |-> "idle", request_id |-> 0, req |-> NoRow, left |-> 0]
\* call when no function of the engine is called on its own
NoCall == [fn |-> "none"]

\* The process just started: an empty store, the worker built and started.
Started ==
  /\ jobs = <<>>
  /\ dblock = {}
  /\ nextId = 1
  /\ q = <<>>
  /\ attempts = <<>>
  /\ max_retries \in 0..MaxRetriesCfg
  /\ backend \in {"llm", "regex"}
  /\ poll_attempts \in 0..MaxPollCfg
  /\ sub = [c \in Callers |-> IdleSub]
  /\ calls = 0
  /\ returned = [k \in Keys |-> {}]
  /\ enq = [k \in Keys |-> 0]
  /\ wpc = "get"
  /\ wid = 0
  /\ req = NoRow
  /\ thr = NoThread
  /\ abandoned = 0
  /\ tried = [i \in Ids |-> 0]
  /\ hung = [i \in Ids |-> TRUE]
  /\ allfail = [i \in Ids |-> TRUE]
  /\ ex = None
  /\ fet = [f \in Fetchers |-> IdleFet]
  /\ gets = 0
  /\ out = NoResponse
  /\ stop_event = FALSE
  /\ restarts = 0
  /\ running = 1
  /\ lifecycle = <<"start">>

Init == Started /\ call = NoCall

(* ------------------------------------------------------------------ *)
(* main.py: submit_extraction                                           *)
(* ------------------------------------------------------------------ *)
\* session.query(ExtractionRequest).filter(idempotency_key == key).one_or_none()
RowsWithKey(key) == {i \in DOMAIN jobs : jobs[i].idempotency_key = key}
HasKey(key) == RowsWithKey(key) # {}
ByKey(key) == jobs[CHOOSE i \in RowsWithKey(key) : TRUE]

\* A queue that serves the newest item first.
enqueue_AtHead(queue, request_id) == <<request_id>> \o queue

\* worker.py enqueue
enqueue(queue, request_id) == Append(queue, request_id)

\* A table without the unique index on idempotency_key.
UniqueConflict_NoIndex(key) == FALSE

\* models.py: the unique index refuses a second row with the key
UniqueConflict(key) == HasKey(key)

\* A second query that misses the winner's row.
existing_again_Blind(key) == None

\* lines 102-106: the loser's second query
existing_again(key) == IF HasKey(key) THEN Some(ByKey(key)) ELSE None

\* The response a POST handler gives, recorded with the path that gave it.
Respond(c, key, rid, status, via) ==
  /\ returned' = [returned EXCEPT ![key] = @ \cup {rid}]
  /\ out' = [op |-> "POST", key |-> key, via |-> via, request_id |-> rid,
             status |-> status, result |-> None, error |-> None]
  /\ sub' = [sub EXCEPT ![c] = IdleSub]

\* A hit that starts the job over: the row goes back to PENDING and its id
\* back on the queue.
SubmitQuery_Resubmits(c, key, text) ==
  /\ sub[c].pc = "idle"
  /\ calls < MaxSubmits
  /\ calls' = calls + 1
  /\ IF HasKey(key)
       THEN /\ jobs' = [jobs EXCEPT ![ByKey(key).id] = NewRow(ByKey(key).id, key, text)]
            /\ q' = enqueue(q, ByKey(key).id)
            /\ Respond(c, key, ByKey(key).id, "PENDING", "hit")
            /\ UNCHANGED nextId
       ELSE /\ sub' = [sub EXCEPT ![c] = [pc |-> "flush", key |-> key,
                                           text |-> text, req_id |-> nextId]]
            /\ nextId' = nextId + 1
            /\ out' = NoResponse
            /\ UNCHANGED <<jobs, q, returned>>
  /\ UNCHANGED <<dblock, enq, cfgVars, lifeVars, call, wpc, wid, req, thr, abandoned, attempts,
                 tried, hung, allfail, ex, fetVars>>

\* lines 68-90: the existence check; a hit returns, a miss builds the new row
SubmitQuery(c, key, text) ==
  /\ sub[c].pc = "idle"
  /\ calls < MaxSubmits
  /\ ~HasKey(key) => out' = NoResponse
  /\ calls' = calls + 1
  /\ IF HasKey(key)
       THEN /\ Respond(c, key, ByKey(key).id, ByKey(key).status, "hit")
            /\ UNCHANGED nextId
       ELSE /\ sub' = [sub EXCEPT ![c] = [pc |-> "flush", key |-> key,
                                           text |-> text, req_id |-> nextId]]
            /\ nextId' = nextId + 1
            /\ UNCHANGED returned
  /\ UNCHANGED <<dbVars, enq, cfgVars, lifeVars, call, workerVars, fetVars>>

\* lines 91-101: session.flush() sends the INSERT; the unique index on
\* idempotency_key refuses it (IntegrityError, then rollback) or the handler
\* holds the write lock until its commit.
SubmitFlush(c) ==
  /\ out' = NoResponse
  /\ sub[c].pc = "flush"
  /\ dblock = {}
  /\ IF UniqueConflict(sub[c].key)
       THEN /\ sub' = [sub EXCEPT ![c].pc = "requery"]
            /\ UNCHANGED dblock
       ELSE /\ sub' = [sub EXCEPT ![c].pc = "commit"]
            /\ dblock' = {c}
  /\ UNCHANGED <<jobs, calls, returned, enq, nextId, cfgVars, lifeVars, call, workerVars, fetVars>>

\* A loser that puts the winner's id on the queue once more.
SubmitRequery_Enqueues(c) ==
  /\ sub[c].pc = "requery"
  /\ HasKey(sub[c].key)
  /\ q' = enqueue(q, ByKey(sub[c].key).id)
  /\ enq' = [enq EXCEPT ![sub[c].key] = @ + 1]
  /\ Respond(c, sub[c].key, ByKey(sub[c].key).id, ByKey(sub[c].key).status, "race")
  /\ UNCHANGED <<dbVars, calls, nextId, cfgVars, lifeVars, call, wpc, wid, req, thr, abandoned, attempts,
                 tried, hung, allfail, ex, fetVars>>

\* lines 102-115: the loser reads the winner's row, or re-raises
SubmitRequery(c) ==
  /\ sub[c].pc = "requery"
  /\ LET again == existing_again(sub[c].key)
     IN  IF again # None
           THEN Respond(c, sub[c].key, again[1].id, again[1].status, "race")
           ELSE Respond(c, sub[c].key, 0, "ERROR", "race")
  /\ UNCHANGED <<dbVars, calls, enq, nextId, cfgVars, lifeVars, call, workerVars, fetVars>>

\* database.py get_session: commit on leaving the with block
SubmitCommit(c) ==
  /\ out' = NoResponse
  /\ sub[c].pc = "commit"
  /\ dblock = {c}
  /\ jobs' = (sub[c].req_id :> NewRow(sub[c].req_id, sub[c].key, sub[c].text)) @@ jobs
  /\ dblock' = {}
  /\ sub' = [sub EXCEPT ![c].pc = "enqueue"]
  /\ UNCHANGED <<calls, returned, enq, nextId, cfgVars, lifeVars, call, workerVars, fetVars>>

\* A handler that answers for its new job without enqueueing it.
SubmitEnqueue_Forgets(c) ==
  /\ sub[c].pc = "enqueue"
  /\ Respond(c, sub[c].key, sub[c].req_id, "PENDING", "new")
  /\ UNCHANGED <<dbVars, calls, enq, nextId, cfgVars, lifeVars, call, workerVars, fetVars>>

\* lines 117-120: enqueue after commit
SubmitEnqueue(c) ==
  /\ sub[c].pc = "enqueue"
  /\ q' = enqueue(q, sub[c].req_id)
  /\ enq' = [enq EXCEPT ![sub[c].key] = @ + 1]
  /\ Respond(c, sub[c].key, sub[c].req_id, "PENDING", "new")
  /\ UNCHANGED <<dbVars, calls, nextId, cfgVars, lifeVars, call, wpc, wid, req, thr, abandoned, attempts, tried, hung, allfail, ex, fetVars>>

Submit ==
  \E c \in Callers :
    \/ \E key \in Keys, text \in Texts : SubmitQuery(c, key, text)
    \/ SubmitFlush(c)
    \/ SubmitRequery(c)
    \/ SubmitCommit(c)
    \/ SubmitEnqueue(c)

(* ------------------------------------------------------------------ *)
(* worker.py                                                            *)
(* ------------------------------------------------------------------ *)
Get(d, k, default) == IF k \in DOMAIN d THEN d[k] ELSE default

\* A merge that tests the amount like the other fields, by truthiness.
merged_AmountTruthy(llm_result, regex_result) ==
  [doc_type |-> Or(llm_result.doc_type, regex_result.doc_type),
   invoice_number |-> Or(llm_result.invoice_number, regex_result.invoice_number),
   invoice_date |-> Or(llm_result.invoice_date, regex_result.invoice_date),
   total_amount |-> IF llm_result.total_amount # None /\ llm_result.total_amount # Some(0)
                      THEN llm_result.total_amount
                      ELSE regex_result.total_amount,
   currency |-> Or(llm_result.currency, regex_result.currency)]

\* lines 83-89: the merge, llm_result being what extract_with_llm gave
merged(llm_result, regex_result) ==
  [doc_type |-> Or(llm_result.doc_type, regex_result.doc_type),
   invoice_number |-> Or(llm_result.invoice_number, regex_result.invoice_number),
   invoice_date |-> Or(llm_result.invoice_date, regex_result.invoice_date),
   total_amount |-> IF llm_result.total_amount # None THEN llm_result.total_amount
                    ELSE regex_result.total_amount,
   currency |-> Or(llm_result.currency, regex_result.currency)]

\* A selector without the except clause: the failure of the external backend
\* is the failure of the attempt.
run_extractor_Propagates(text, llm) ==
  IF backend = "llm"
    THEN IF ~llm.ok THEN llm
         ELSE IF extract_from_text(text).ok
           THEN Return(merged(llm.value, extract_from_text(text).value))
           ELSE extract_from_text(text)
    ELSE extract_from_text(text)

\* lines 75-102: run_extractor, llm being what extract_with_llm gives
run_extractor(text, llm) ==
  IF backend = "llm"
    THEN IF llm.ok /\ extract_from_text(text).ok
           THEN LET regex_result == extract_from_text(text).value
                    m == merged(llm.value, regex_result)
                IN  IF \A k \in ResultFields : m[k] = None
                      THEN Return(regex_result)
                      ELSE Return(m)
           ELSE extract_from_text(text)
    ELSE extract_from_text(text)

\* line 118
TimeoutError ==
  [type |-> "TimeoutError", code |-> "", message |-> "",
   str |-> "Extraction timed out after 60.0 seconds"]
\* any other fault of the attempt thread
OtherFault ==
  [type |-> "Exception", code |-> "", message |-> "", str |-> "unexpected fault"]

\* lines 124-131
CompletedRow(r, result) ==
  [r EXCEPT !.doc_type = result.doc_type,
            !.invoice_number = result.invoice_number,
            !.invoice_date = result.invoice_date,
            !.total_amount = result.total_amount,
            !.currency = result.currency,
            !.error_code = None,
            !.error_message = None,
            !.status = "COMPLETED"]

\* Every failure reported as the generic error.
ErrorOf_Generic(e) == [code |-> "EXTRACTOR_ERROR", message |-> e.str]

\* lines 155-174: error_code and error_message by the class of the exception
ErrorOf(e) ==
  IF e.type = "TimeoutError"
    THEN [code |-> "EXTRACTOR_TIMEOUT", message |-> e.str]
  ELSE IF e.type = "ExtractorFailure"
    THEN [code |-> e.code, message |-> e.message]
  ELSE [code |-> "EXTRACTOR_ERROR", message |-> e.str]

\* lines 149-174
FailedRow(r, e) ==
  [r EXCEPT !.status = "FAILED",
            !.doc_type = None,
            !.invoice_number = None,
            !.invoice_date = None,
            !.total_amount = None,
            !.currency = None,
            !.error_code = Some(ErrorOf(e).code),
            !.error_message = Some(ErrorOf(e).message)]

\* One retry too few.
RetryAllowed_Strict(n) == n < max_retries

\* line 137
RetryAllowed(n) == n <= max_retries

\* One more attempt of job wid is decided: it failed or not, by the budget
\* elapsing or not.
Note(failure, timeout) ==
  /\ tried' = [tried EXCEPT ![wid] = @ + 1]
  /\ hung' = [hung EXCEPT ![wid] = @ /\ timeout]
  /\ allfail' = [allfail EXCEPT ![wid] = @ /\ failure]

\* line 40: the reserved queue item "__STOP__"
StopSentinel == 0

\* lines 50-58: _run takes the next item off the queue: the sentinel ends the
\* loop and the thread, an id is processed.  (The event is read before the
\* blocking get.  A stop between the two that finds an id at the head is this
\* step taken before the stop; one that finds the queue empty wakes the get
\* with the sentinel, whatever the event.)
Dequeue ==
  /\ out' = NoResponse
  /\ wpc = "get"
  /\ q # <<>>
  /\ ~stop_event \/ Head(q) = StopSentinel
  /\ q' = Tail(q)
  /\ IF Head(q) = StopSentinel
       THEN wpc' = "exited" /\ running' = running - 1 /\ UNCHANGED wid
       ELSE wid' = Head(q) /\ wpc' = "load" /\ UNCHANGED running
  /\ UNCHANGED <<dbVars, cfgVars, stop_event, restarts, lifecycle, call, subVars, fetVars, req, thr,
                 abandoned, attempts, tried, hung, allfail, ex>>

\* A load that skips a missing job only: a job that is no longer PENDING is
\* processed again.
Load_AnyStatus ==
  /\ out' = NoResponse
  /\ wpc = "load"
  /\ IF wid \notin DOMAIN jobs
       THEN /\ wpc' = "get"
            /\ wid' = 0
            /\ UNCHANGED <<req, thr>>
       ELSE /\ req' = jobs[wid]
            /\ thr' = Running
            /\ wpc' = "join"
            /\ UNCHANGED wid
  /\ UNCHANGED <<dbVars, cfgVars, lifeVars, call, subVars, fetVars, q, abandoned, attempts,
                 tried, hung, allfail, ex>>

\* lines 62-73 and 114-115: session.get, the skip of a missing or non-PENDING
\* job, else the attempt thread is started
Load ==
  /\ out' = NoResponse
  /\ wpc = "load"
  /\ IF wid \notin DOMAIN jobs \/ jobs[wid].status # "PENDING"
       THEN /\ wpc' = "get"
            /\ wid' = 0
            /\ UNCHANGED <<req, thr>>
       ELSE /\ req' = jobs[wid]
            /\ thr' = Running
            /\ wpc' = "join"
            /\ UNCHANGED wid
  /\ UNCHANGED <<dbVars, cfgVars, lifeVars, call, subVars, fetVars, q, abandoned, attempts,
                 tried, hung, allfail, ex>>

\* lines 108-112: _target ends, with a value or with an error
ThreadFinish ==
  /\ out' = NoResponse
  /\ wpc = "join"
  /\ thr.alive
  /\ \E llm \in LLMOutcomes, fault \in BOOLEAN :
       thr' = Ended(IF fault THEN Raise(OtherFault)
                    ELSE run_extractor(req.document_text, llm))
  /\ UNCHANGED <<dbVars, cfgVars, lifeVars, call, subVars, fetVars, q, wpc, wid, req, abandoned,
                 attempts, tried, hung, allfail, ex>>

\* A retry that stores the error of the failed attempt in the PENDING row.
OnFailure_RecordsError(e) ==
  /\ attempts' = (wid :> (Get(attempts, wid, 0) + 1)) @@ attempts
  /\ Note(TRUE, e.type = "TimeoutError")
  /\ ex' = Some(e)
  /\ wpc' = "commit"
  /\ UNCHANGED wid
  /\ IF RetryAllowed(Get(attempts, wid, 0) + 1)
       THEN /\ q' = enqueue(q, wid)
            /\ req' = [req EXCEPT !.error_code = Some(ErrorOf(e).code),
                                   !.error_message = Some(ErrorOf(e).message)]
       ELSE /\ req' = FailedRow(req, e)
            /\ UNCHANGED q

\* A retry that forgets to put the id back on the queue.
OnFailure_NoRequeue(e) ==
  /\ attempts' = (wid :> (Get(attempts, wid, 0) + 1)) @@ attempts
  /\ Note(TRUE, e.type = "TimeoutError")
  /\ UNCHANGED q
  /\ IF RetryAllowed(Get(attempts, wid, 0) + 1)
       THEN wpc' = "get" /\ ex' = None /\ req' = NoRow /\ wid' = 0
       ELSE req' = FailedRow(req, e) /\ wpc' = "commit" /\ ex' = Some(e) /\ UNCHANGED wid

\* A retry that puts the id on the queue twice.
OnFailure_DoubleEnqueue(e) ==
  /\ attempts' = (wid :> (Get(attempts, wid, 0) + 1)) @@ attempts
  /\ Note(TRUE, e.type = "TimeoutError")
  /\ IF RetryAllowed(Get(attempts, wid, 0) + 1)
       THEN /\ q' = enqueue(enqueue(q, wid), wid)
            /\ wpc' = "get"
            /\ ex' = None
            /\ req' = NoRow
            /\ wid' = 0
       ELSE /\ req' = FailedRow(req, e)
            /\ wpc' = "commit"
            /\ ex' = Some(e)
            /\ UNCHANGED <<q, wid>>

\* lines 133-174: the retry policy on the failure ex of this attempt
OnFailure(e) ==
  /\ attempts' = (wid :> (Get(attempts, wid, 0) + 1)) @@ attempts
  /\ Note(TRUE, e.type = "TimeoutError")
  /\ IF RetryAllowed(Get(attempts, wid, 0) + 1)
       THEN /\ q' = enqueue(q, wid)
            /\ wpc' = "get"
            /\ ex' = None
            /\ req' = NoRow
            /\ wid' = 0
       ELSE /\ req' = FailedRow(req, e)
            /\ wpc' = "commit"
            /\ ex' = Some(e)
            /\ UNCHANGED <<q, wid>>

\* A guard that reports every failure of the function as a timeout.
JoinDone_AsTimeout ==
  /\ out' = NoResponse
  /\ wpc = "join"
  /\ ~thr.alive
  /\ thr' = NoThread
  /\ IF thr.out[1].ok
       THEN /\ req' = CompletedRow(req, thr.out[1].value)
            /\ wpc' = "commit"
            /\ Note(FALSE, FALSE)
            /\ UNCHANGED <<q, attempts, ex, wid>>
       ELSE OnFailure(TimeoutError)
  /\ UNCHANGED <<dbVars, cfgVars, lifeVars, call, subVars, fetVars, abandoned>>

\* lines 116-131: join returned with the thread ended
JoinDone ==
  /\ out' = NoResponse
  /\ wpc = "join"
  /\ ~thr.alive
  /\ thr' = NoThread
  /\ IF thr.out[1].ok
       THEN /\ req' = CompletedRow(req, thr.out[1].value)
            /\ wpc' = "commit"
            /\ Note(FALSE, FALSE)
            /\ UNCHANGED <<q, attempts, ex, wid>>
       ELSE OnFailure(thr.out[1].error)
  /\ UNCHANGED <<dbVars, cfgVars, lifeVars, call, subVars, fetVars, abandoned>>

\* A join without a timeout.
JoinTimeout_Never == FALSE

\* lines 116-118: the budget elapsed with the thread alive; it is left running
JoinTimeout ==
  /\ out' = NoResponse
  /\ wpc = "join"
  /\ thr.alive
  /\ thr' = NoThread
  /\ abandoned' = abandoned + 1
  /\ OnFailure(TimeoutError)
  /\ UNCHANGED <<dbVars, cfgVars, lifeVars, call, subVars, fetVars>>

\* A commit that writes the status and leaves the other columns as they were.
Commit_StatusOnly ==
  /\ out' = NoResponse
  /\ wpc = "commit"
  /\ dblock = {}
  /\ jobs' = [jobs EXCEPT ![wid].status = req.status]
  /\ wpc' = "get"
  /\ ex' = None
  /\ req' = NoRow
  /\ wid' = 0
  /\ UNCHANGED <<dblock, cfgVars, lifeVars, call, subVars, fetVars, q, thr, abandoned,
                 attempts, tried, hung, allfail>>

\* line 180 and get_session: the session commits the changed row
Commit ==
  /\ out' = NoResponse
  /\ wpc = "commit"
  /\ dblock = {}
  /\ jobs' = [jobs EXCEPT ![wid] = req]
  /\ wpc' = "get"
  /\ ex' = None
  /\ req' = NoRow
  /\ wid' = 0
  /\ UNCHANGED <<dblock, cfgVars, lifeVars, call, subVars, fetVars, q, thr, abandoned,
                 attempts, tried, hung, allfail>>

\* Attempt threads that share one pair of containers: what an abandoned
\* thread leaves there is taken for the outcome of the attempt now running.
AbandonedFinish_SharedContainers ==
  /\ out' = NoResponse
  /\ abandoned > 0
  /\ abandoned' = abandoned - 1
  /\ thr' = IF wpc = "join" /\ thr.alive THEN Ended(Raise(OtherFault)) ELSE thr
  /\ UNCHANGED <<dbVars, cfgVars, lifeVars, call, subVars, fetVars, q, wpc, wid, req, attempts,
                 tried, hung, allfail, ex>>

\* lines 108-112 in a thread nobody waits for any more: its value or error
\* goes to containers no one reads
AbandonedFinish ==
  /\ out' = NoResponse
  /\ abandoned > 0
  /\ abandoned' = abandoned - 1
  /\ UNCHANGED <<dbVars, cfgVars, lifeVars, call, subVars, fetVars, q, wpc, wid, req, thr, attempts,
                 tried, hung, allfail, ex>>

Worker == Dequeue \/ Load \/ JoinDone \/ JoinTimeout \/ Commit

(* ------------------------------------------------------------------ *)
(* run_extractor on its own                                             *)
(* ------------------------------------------------------------------ *)
\* What the heuristic engine may find in a document.
SelectorTexts ==
  { [marker |-> m, upper |-> u, number |-> n, date |-> d, amount |-> a[1], currency |-> a[2]] :
      m \in BOOLEAN, u \in {{}, {"INVOICE"}},
      n \in {None, Some("INV-1")}, d \in {None, Some("2024-12-15")},
      a \in {<<None, None>>, <<Some(45), Some("USD")>>, <<Some(40), None>>} }

\* What extract_with_llm may give: a failure, or the five fields, each null,
\* empty or filled.
SelectorLLM ==
  { Raise([type |-> "Exception", code |-> "", message |-> "",
           str |-> "OPENAI_API_KEY not set"]) }
  \cup
  { Return([doc_type |-> t, invoice_number |-> n, invoice_date |-> d,
            total_amount |-> a, currency |-> c]) :
      t \in {None, Some(""), Some("receipt")}, n \in {None, Some(""), Some("R-7")},
      d \in {None, Some(""), Some("2024-01-31")}, a \in {None, Some(0), Some(50)},
      c \in {None, Some(""), Some("EUR")} }

\* lines 104-123: run_extractor is called once and gives its outcome
ApplyRunExtractor ==
  /\ call.fn = "run_extractor"
  /\ call.ret = None
  /\ call' = [call EXCEPT !.ret = Some(run_extractor(call.text, call.llm))]
  /\ UNCHANGED <<dbVars, cfgVars, lifeVars, subVars, workerVars, fetVars, out>>

SelectorInit ==
  /\ Started
  /\ max_retries = 0
  /\ poll_attempts = 0
  /\ call \in [fn : {"run_extractor"}, text : SelectorTexts, llm : SelectorLLM, ret : {None}]

SelectorSpec == SelectorInit /\ [][ApplyRunExtractor]_vars

(* ------------------------------------------------------------------ *)
(* _extract_date_iso on its own                                         *)
(* ------------------------------------------------------------------ *)
\* Texts with one date in them: the date y-m-d, calendar or not, written as
\* YYYY-MM-DD or as "Month D, YYYY" with the English name of month m, in full
\* or cut to three letters, in title, lower or upper case.
DateYears == {2023, 2024}
DateDays == {1, 9, 15, 29, 30, 31}
DatePrefixes == {<<>>, <<"D", "u", "e", ":", " ">>}
DateSuffixes == {<<>>, <<".">>}
upper_char(c) ==
  IF c \in Range(Lowers) THEN Uppers[CHOOSE i \in DOMAIN Lowers : Lowers[i] = c] ELSE c
MonthName(m, length, case) ==
  LET full == CHOOSE n \in DOMAIN MONTHS : MONTHS[n] = m
      name == IF length = "abbr" THEN SubSeq(full, 1, 3) ELSE full
  IN  [i \in DOMAIN name |->
         IF case = "upper" \/ (case = "title" /\ i = 1) THEN upper_char(name[i]) ELSE name[i]]
DayText(d) == IF d < 10 THEN Pad(d, 1) ELSE Pad(d, 2)
IsoText(y, m, d) == Pad(y, 4) \o <<"-">> \o Pad(m, 2) \o <<"-">> \o Pad(d, 2)
MonthText(y, m, d, length, case) ==
  MonthName(m, length, case) \o <<" ">> \o DayText(d) \o <<",", " ">> \o Pad(y, 4)
DateCalls ==
  { [fn |-> "_extract_date_iso", form |-> "iso", length |-> "full", case |-> "lower",
     y |-> y, m |-> m, d |-> d,
     text |-> pre \o IsoText(y, m, d) \o suf, ret |-> None] :
      y \in DateYears, m \in 1..12, d \in DateDays, pre \in DatePrefixes, suf \in DateSuffixes }
  \cup
  { [fn |-> "_extract_date_iso", form |-> "month", length |-> l, case |-> c,
     y |-> y, m |-> m, d |-> d,
     text |-> pre \o MonthText(y, m, d, l, c) \o suf, ret |-> None] :
      y \in DateYears, m \in 1..12, d \in DateDays, pre \in DatePrefixes, suf \in DateSuffixes,
      l \in {"full", "abbr"}, c \in {"title", "lower", "upper"} }

\* line 223: the date of a text is extracted
ApplyExtractDate ==
  /\ call.fn = "_extract_date_iso"
  /\ call.ret = None
  /\ call' = [call EXCEPT !.ret = Some(_extract_date_iso(call.text))]
  /\ UNCHANGED <<dbVars, cfgVars, lifeVars, subVars, workerVars, fetVars, out>>

DateInit ==
  /\ Started
  /\ max_retries = 0
  /\ backend = "regex"
  /\ poll_attempts = 0
  /\ call \in DateCalls

DateSpec == DateInit /\ [][ApplyExtractDate]_vars

(* ------------------------------------------------------------------ *)
(* _extract_currency_and_amount on its own                              *)
(* ------------------------------------------------------------------ *)
\* The numbers group 2 of the patterns of lines 131-137 matches: one to three
\* digits, groups of three digits each after a comma, a dot or white space,
\* and two decimals after a dot or a comma; or digits with optional decimals.
RECURSIVE GroupTails(_)
GroupTails(k) ==
  IF k = 0 THEN {<<>>}
  ELSE {<<sep>> \o <<"2", "3", "4">> \o rest :
          sep \in {",", ".", " ", "\t"}, rest \in GroupTails(k - 1)}
RawNumbers ==
  { lead \o groups \o <<mark, "5", "6">> :
      lead \in {<<"1">>, <<"1", "2">>, <<"1", "2", "3">>},
      groups \in UNION {GroupTails(k) : k \in 0..MaxGroups}, mark \in {".", ","} }
  \cup {<<"4", "5">>, <<"1", "2", "3", "4">>, <<"1", "2", "3", "4", ",", "5", "6">>}

\* Lines, by what the patterns of lines 105-107 and 131-137 find on them: total
\* (total_pattern matches), symbol (symbol_pattern matches), code (the first
\* match of code_pattern), sym (the matches of symbol_amount_regex, each a
\* symbol and a number) and gen (the matches of amount_regex).
Line(text, total, symbol, code, sym, gen) ==
  [text |-> text, total |-> total, symbol |-> symbol, code |-> code, sym |-> sym, gen |-> gen]
Match(symbol, raw_number) == [symbol |-> symbol, raw |-> raw_number]
N45 == <<"4", "5", ".", "0", "0">>
N40 == <<"4", "0", ".", "0", "0">>
AmountLines ==
  { Line("Total: $45.00", TRUE, TRUE, None, <<Match(Some("$"), N45)>>, <<Match(Some("$"), N45)>>),
    Line("Subtotal: $40.00", FALSE, TRUE, None, <<Match(Some("$"), N40)>>, <<Match(Some("$"), N40)>>),
    Line("Total 45.00 EUR", TRUE, FALSE, Some("EUR"), <<>>, <<Match(None, N45)>>),
    Line("Ref 50.00", FALSE, FALSE, None, <<>>, <<Match(None, <<"5", "0", ".", "0", "0">>)>>),
    Line("Grand Total: euro-sign 1.234,56", TRUE, TRUE, None,
         <<Match(Some("euro"), <<"1", ".", "2", "3", "4", ",", "5", "6">>)>>,
         <<Match(Some("euro"), <<"1", ".", "2", "3", "4", ",", "5", "6">>)>>),
    Line("Total: pound-sign 1.234.56", TRUE, TRUE, None,
         <<Match(Some("pound"), <<"1", ".", "2", "3", "4", ".", "5", "6">>)>>,
         <<Match(Some("pound"), <<"1", ".", "2", "3", "4", ".", "5", "6">>)>>),
    Line("$40.00 plus $45", FALSE, TRUE, None,
         <<Match(Some("$"), N40), Match(Some("$"), <<"4", "5">>)>>,
         <<Match(Some("$"), N40), Match(Some("$"), <<"4", "5">>)>>),
    Line("Due on receipt", FALSE, FALSE, None, <<>>, <<>>) }
RECURSIVE LinesUpTo(_)
LinesUpTo(n) ==
  IF n = 0 THEN {<<>>}
  ELSE LinesUpTo(n - 1) \cup
       {Append(t, l) : t \in {u \in LinesUpTo(n - 1) : Len(u) = n - 1}, l \in AmountLines}

\* lines 156-166: one matched number is normalized and parsed
ApplyAmountVal ==
  /\ call.fn = "amount_val"
  /\ call.ret = None
  /\ call' = [call EXCEPT !.ret = Some(amount_val(call.raw))]
  /\ UNCHANGED <<dbVars, cfgVars, lifeVars, subVars, workerVars, fetVars, out>>

\* line 224: the currency and the amount of a text are extracted
ApplyExtractAmount ==
  /\ call.fn = "_extract_currency_and_amount"
  /\ call.ret = None
  /\ call' = [call EXCEPT !.ret = Some(_extract_currency_and_amount(call.lines))]
  /\ UNCHANGED <<dbVars, cfgVars, lifeVars, subVars, workerVars, fetVars, out>>

AmountInit ==
  /\ Started
  /\ max_retries = 0
  /\ backend = "regex"
  /\ poll_attempts = 0
  /\ call \in [fn : {"amount_val"}, raw : RawNumbers, ret : {None}]
            \cup [fn : {"_extract_currency_and_amount"}, lines : LinesUpTo(MaxLines), ret : {None}]

AmountSpec == AmountInit /\ [][ApplyAmountVal \/ ApplyExtractAmount]_vars

(* ------------------------------------------------------------------ *)
(* The life of the process: shutdown and restart                        *)
(* ------------------------------------------------------------------ *)
\* The last call made on the worker.
LastCall == lifecycle[Len(lifecycle)]

\* lines 41-42: the calls are made one after another, so the next comes when
\* the join of a stop has returned: the thread has ended, or 2 seconds have
\* passed with the thread still in a pass of _process_request (a thread
\* waiting in get wakes and ends well within them)
Joined == LastCall = "stop" => (running = 0 \/ wpc \in {"load", "join", "commit"})

\* worker.py lines 37-43, called by on_shutdown: set the event and put the
\* sentinel; the join that follows waits at most 2 seconds and changes nothing
Stop ==
  /\ out' = NoResponse
  /\ Len(lifecycle) <= MaxLifeCalls
  /\ Joined
  /\ lifecycle' = Append(lifecycle, "stop")
  /\ stop_event' = TRUE
  /\ q' = Append(q, StopSentinel)
  /\ UNCHANGED <<dbVars, cfgVars, subVars, fetVars, restarts, running, call, wpc, wid, req, thr,
                 abandoned, attempts, tried, hung, allfail, ex>>

\* A start that does not look for a live thread.
Start_NoAliveCheck ==
  /\ out' = NoResponse
  /\ Len(lifecycle) <= MaxLifeCalls
  /\ Joined
  /\ lifecycle' = Append(lifecycle, "start")
  /\ stop_event' = FALSE
  /\ running' = running + 1
  /\ wpc' = IF wpc = "exited" THEN "get" ELSE wpc
  /\ UNCHANGED <<dbVars, cfgVars, subVars, fetVars, restarts, call, q, wid, req, thr,
                 abandoned, attempts, tried, hung, allfail, ex>>

\* worker.py lines 29-35: start returns at once while the thread is alive,
\* the event left as it is; else it clears the event and starts a new thread
\* on the same queue and the same attempt counters
Start ==
  /\ out' = NoResponse
  /\ Len(lifecycle) <= MaxLifeCalls
  /\ Joined
  /\ lifecycle' = Append(lifecycle, "start")
  /\ IF running > 0
       THEN UNCHANGED <<stop_event, running, wpc>>
       ELSE /\ stop_event' = FALSE
            /\ running' = 1
            /\ wpc' = "get"
  /\ UNCHANGED <<dbVars, cfgVars, subVars, fetVars, restarts, call, q, wid, req, thr,
                 abandoned, attempts, tried, hung, allfail, ex>>

\* line 50: the loop condition fails once the event is set; what is on the
\* queue stays there
WorkerExit ==
  /\ out' = NoResponse
  /\ wpc = "get"
  /\ stop_event
  /\ wpc' = "exited"
  /\ running' = running - 1
  /\ UNCHANGED <<dbVars, cfgVars, subVars, fetVars, stop_event, restarts, lifecycle, call, q, wid,
                 req, thr, abandoned, attempts, tried, hung, allfail, ex>>

\* The process ends and a new one starts: the store keeps its committed rows,
\* every thread, open transaction and in-memory object is gone, the module
\* builds a new ExtractionWorker (empty _q, empty _attempts, event clear) and
\* on_startup starts its thread.
Restart ==
  /\ out' = NoResponse
  /\ restarts < MaxRestarts
  /\ restarts' = restarts + 1
  /\ stop_event' = FALSE
  /\ running' = 1
  /\ lifecycle' = <<"start">>
  /\ q' = <<>>
  /\ attempts' = <<>>
  /\ wpc' = "get"
  /\ wid' = 0
  /\ req' = NoRow
  /\ thr' = NoThread
  /\ abandoned' = 0
  /\ ex' = None
  /\ dblock' = {}
  /\ sub' = [c \in Callers |-> IdleSub]
  /\ fet' = [f \in Fetchers |-> IdleFet]
  /\ UNCHANGED <<jobs, nextId, calls, returned, enq, gets, cfgVars, tried, hung, allfail, call>>

Lifecycle == Stop \/ WorkerExit \/ Restart

(* ------------------------------------------------------------------ *)
(* main.py: get_extraction                                              *)
(* ------------------------------------------------------------------ *)
\* lines 133-139 and 162-168
ExtractionResult(r) ==
  [doc_type |-> IF Truthy(r.doc_type) THEN r.doc_type ELSE Some("unknown"),
   invoice_number |-> r.invoice_number,
   invoice_date |-> r.invoice_date,
   total_amount |-> r.total_amount,
   currency |-> r.currency]

\* lines 145 and 176
ExtractionError(r) ==
  [code |-> IF Truthy(r.error_code) THEN r.error_code ELSE Some("UNKNOWN_ERROR"),
   message |-> IF Truthy(r.error_message) THEN r.error_message ELSE Some("")]

\* The responses of GET: ExtractGetResponse, or the 404 of an unknown id.
ExtractGetResponse(rid, status, result, error) ==
  [op |-> "GET", key |-> "", via |-> "none", request_id |-> rid, status |-> status,
   result |-> result, error |-> error]
NotFound(rid) == ExtractGetResponse(rid, "NOT_FOUND", None, None)
CompletedResponse(r) == ExtractGetResponse(r.id, r.status, Some(ExtractionResult(r)), None)
FailedResponse(r) == ExtractGetResponse(r.id, r.status, None, Some(ExtractionError(r)))
\* The last response built from the status now in the store.
FinalResponse_Fresh(r) == ExtractGetResponse(r.id, jobs[r.id].status, None, None)

\* line 184: the status of the object as last read
FinalResponse(r) == ExtractGetResponse(r.id, r.status, None, None)

FetchReturn(f, response) ==
  /\ out' = response
  /\ fet' = [fet EXCEPT ![f] = IdleFet]

\* lines 125-149: session.get and the answers that need no polling
FetchGet(f, rid) ==
  /\ fet[f].pc = "idle"
  /\ gets < MaxFetches
  /\ gets' = gets + 1
  /\ IF rid \notin DOMAIN jobs THEN FetchReturn(f, NotFound(rid))
     ELSE IF jobs[rid].status = "COMPLETED" THEN FetchReturn(f, CompletedResponse(jobs[rid]))
     ELSE IF jobs[rid].status = "FAILED" THEN FetchReturn(f, FailedResponse(jobs[rid]))
     ELSE /\ fet' = [fet EXCEPT ![f] = [pc |-> "poll", request_id |-> rid,
                                        req |-> jobs[rid], left |-> poll_attempts]]
          /\ out' = NoResponse
  /\ UNCHANGED <<dbVars, cfgVars, lifeVars, call, subVars, workerVars>>

\* lines 157-177: one round of the loop: sleep, session.refresh(req), recheck
FetchPoll(f) ==
  /\ fet[f].pc = "poll"
  /\ fet[f].left > 0
  /\ LET r == jobs[fet[f].request_id]
     IN  IF r.status = "COMPLETED" THEN FetchReturn(f, CompletedResponse(r))
         ELSE IF r.status = "FAILED" THEN FetchReturn(f, FailedResponse(r))
         ELSE /\ fet' = [fet EXCEPT ![f].req = r, ![f].left = @ - 1]
              /\ out' = NoResponse
  /\ UNCHANGED <<dbVars, cfgVars, lifeVars, call, subVars, workerVars, gets>>

\* A GET that, tired of polling, marks the job FAILED.
FetchGiveUp_MarksFailed(f) ==
  /\ fet[f].pc = "poll"
  /\ fet[f].left = 0
  /\ FetchReturn(f, FinalResponse(fet[f].req))
  /\ jobs' = [jobs EXCEPT ![fet[f].request_id].status = "FAILED"]
  /\ UNCHANGED <<dblock, cfgVars, lifeVars, call, subVars, workerVars, gets>>

\* lines 178-184: the loop is over
FetchGiveUp(f) ==
  /\ fet[f].pc = "poll"
  /\ fet[f].left = 0
  /\ FetchReturn(f, FinalResponse(fet[f].req))
  /\ UNCHANGED <<dbVars, cfgVars, lifeVars, call, subVars, workerVars, gets>>

Fetch ==
  \E f \in Fetchers :
    \/ \E rid \in Ids : FetchGet(f, rid)
    \/ FetchPoll(f)
    \/ FetchGiveUp(f)

\* The steps that create and process jobs; GET handlers only read.
Processing == Submit \/ Worker \/ ThreadFinish \/ AbandonedFinish

Next == Processing \/ Fetch

Spec == Init /\ [][Next]_vars

\* The worker thread, the request handlers and the budget timer of join are
\* scheduled; an attempt thread may never end.
Fairness ==
  /\ WF_vars(Worker)
  /\ \A c \in Callers : WF_vars(SubmitFlush(c) \/ SubmitRequery(c) \/ SubmitCommit(c)
                                 \/ SubmitEnqueue(c))

\* Job creation and processing alone.  The steps of GET handlers change
\* nothing but fet, gets and out, and no step of Processing reads fet, gets,
\* out or poll_attempts.
ProcInit == Init /\ poll_attempts = 0

ProcSpec == ProcInit /\ [][Processing]_vars

\* The same, fairly scheduled.
FairSpec == ProcSpec /\ Fairness

\* Job creation and processing in a process that may be shut down and
\* restarted, with the default backend.
LifeInit == ProcInit /\ backend = "llm"

LifeSpec == LifeInit /\ [][Processing \/ Lifecycle]_vars

\* A process that may end at any point and start again, never shut down in
\* between, fairly scheduled.
RestartSpec == LifeInit /\ [][Processing \/ Restart]_vars /\ Fairness

\* The store is a SQLite file that other programs can write.  Another writer
\* ends a PENDING job, or deletes it, while the worker does not hold it: its
\* id may be waiting on the queue.
OutOfBand ==
  /\ out' = NoResponse
  /\ dblock = {}
  /\ \E i \in DOMAIN jobs :
       /\ jobs[i].status = "PENDING"
       /\ wid # i
       /\ \/ \E st \in {"COMPLETED", "FAILED"} : jobs' = [jobs EXCEPT ![i].status = st]
          \/ jobs' = [j \in DOMAIN jobs \ {i} |-> jobs[j]]
  /\ UNCHANGED <<dblock, cfgVars, lifeVars, call, subVars, fetVars, workerVars>>

\* Job creation and processing next to such a writer.
StaleSpec == ProcInit /\ [][Processing \/ OutOfBand]_vars

\* One process whose worker may be stopped and started again, by any
\* sequence of calls of stop and start.
StartStop == Stop \/ WorkerExit \/ Start

StartStopSpec == LifeInit /\ [][Processing \/ StartStop]_vars

\* The same, fairly scheduled; a worker thread that finds the event set ends.
StartStopFairSpec == StartStopSpec /\ Fairness /\ WF_vars(WorkerExit)


(* ------------------------------------------------------------------ *)
(* Properties                                                           *)
(* ------------------------------------------------------------------ *)
Terminal(i) == i \in DOMAIN jobs /\ jobs[i].status \in {"COMPLETED", "FAILED"}

\* C1: whatever the interleaving of POST calls with one idempotency_key,
\* all their responses carry one and the same request_id, and once a response
\* is given exactly one row with that key is in the store (never more).
C1_Idempotent ==
  \A k \in Keys :
    /\ Cardinality(RowsWithKey(k)) <= 1
    /\ returned[k] # {} => returned[k] = RowsWithKey(k)

\* Two concurrent calls with one key have both answered: the loser of the
\* race just now, the winner (who enqueued) before.
C1_Witness ==
  /\ out.op = "POST" /\ out.via = "race"
  /\ enq[out.key] = 1
  /\ returned[out.key] = {out.request_id}

\* C2: the call that loses the uniqueness conflict never ends in an error: its
\* insert is gone and its response is the id and the status of the winner's row.
C2_LoserGetsWinner ==
  (out.op = "POST" /\ out.via = "race") =>
    /\ out.status # "ERROR"
    /\ Cardinality(RowsWithKey(out.key)) = 1
    /\ out.request_id = ByKey(out.key).id
    /\ out.status = ByKey(out.key).status

\* The loser answers after the worker has already finished the winner's job.
C2_Witness ==
  /\ out.op = "POST" /\ out.via = "race"
  /\ out.status \in {"COMPLETED", "FAILED"}

\* C3: POST handlers enqueue at most once per key; the enqueue is of the id of
\* a row already committed; a response for an existing job (found at once or
\* after losing the race) comes with no enqueue.
C3_EnqueueOnce ==
  /\ [](\A k \in Keys : enq[k] <= 1)
  /\ [][ out'.op = "POST" =>
           IF out'.via = "new"
             THEN /\ q' = Append(q, out'.request_id)
                  /\ out'.request_id \in DOMAIN jobs
                  /\ jobs[out'.request_id].idempotency_key = out'.key
                  /\ enq[out'.key] = 0
             ELSE q' = q /\ enq' = enq ]_vars

\* A call finds the job of a key whose id was enqueued before.
C3_Witness ==
  /\ out.op = "POST" /\ out.via = "hit"
  /\ enq[out.key] = 1

\* C4: the status of a job only ever moves from PENDING to COMPLETED or from
\* PENDING to FAILED, and no job is ever removed; a COMPLETED or FAILED job
\* keeps its status in every later step.
C4_StatusMonotonic ==
  [][\A i \in DOMAIN jobs :
       /\ i \in DOMAIN jobs'
       /\ jobs'[i].status # jobs[i].status =>
            jobs[i].status = "PENDING" /\ jobs'[i].status \in {"COMPLETED", "FAILED"}]_vars

\* A job is COMPLETED by its second attempt while the thread of its first,
\* timed out, attempt is still running.
C4_Witness ==
  \E i \in DOMAIN jobs :
    jobs[i].status = "COMPLETED" /\ tried[i] >= 2 /\ abandoned > 0

\* C5: in every stored row the result fields are null unless the status is
\* COMPLETED and the error fields are null unless the status is FAILED.
C5_ResultErrorExclusive ==
  \A i \in DOMAIN jobs :
    /\ jobs[i].status # "COMPLETED" => \A k \in ResultFields : jobs[i][k] = None
    /\ jobs[i].status # "FAILED" => \A k \in ErrorFields : jobs[i][k] = None

\* The store holds a FAILED job next to a COMPLETED one, whose date is null.
C5_Witness ==
  \E i, j \in DOMAIN jobs :
    /\ jobs[i].status = "FAILED" /\ jobs[i].error_code # None
    /\ jobs[j].status = "COMPLETED" /\ jobs[j].doc_type # None
    /\ jobs[j].invoice_date = None

InQueueOrInHand(i) == i \in Range(q) \/ (wid = i /\ wpc \in {"load", "join"})

\* C6: while every attempt of a job has failed, the job is PENDING, and back
\* on the queue, after each of the first max_retries attempts; it is FAILED by
\* attempt number max_retries + 1 and by no other; a FAILED job is not on the
\* queue and gets no further attempt.
C6_RetryBound ==
  \A i \in DOMAIN jobs :
    /\ tried[i] <= max_retries + 1
    /\ (allfail[i] /\ tried[i] <= max_retries) =>
         jobs[i].status = "PENDING" /\ (tried[i] >= 1 => InQueueOrInHand(i))
    /\ (allfail[i] /\ tried[i] = max_retries + 1) =>
         \/ jobs[i].status = "FAILED"
         \/ wid = i /\ wpc = "commit" /\ req.status = "FAILED"
    /\ jobs[i].status = "FAILED" =>
         allfail[i] /\ tried[i] = max_retries + 1 /\ ~InQueueOrInHand(i)

\* With a retry allowed, a job is FAILED after max_retries + 1 failed attempts.
C6_Witness ==
  \E i \in DOMAIN jobs :
    jobs[i].status = "FAILED" /\ tried[i] = max_retries + 1 /\ max_retries >= 1

\* C7: the worker never stays in join for ever: with the attempt thread still
\* alive when the budget elapses it leaves join, counts the attempt as failed
\* by a timeout and applies the retry policy (back on the queue, or FAILED); a
\* job all of whose attempts time out ends FAILED with EXTRACTOR_TIMEOUT and
\* the message of the timeout.
C7_TimeoutUnblocks ==
  /\ (wpc = "join") ~> (wpc # "join")
  /\ [][(wpc = "join" /\ thr.alive /\ wpc' # "join") =>
          /\ attempts'[wid] = Get(attempts, wid, 0) + 1
          /\ allfail'[wid] = allfail[wid] /\ hung'[wid] = hung[wid]
          /\ IF attempts'[wid] <= max_retries
               THEN q' = Append(q, wid) /\ wpc' = "get"
               ELSE /\ wpc' = "commit" /\ req'.status = "FAILED"
                    /\ req'.error_code = Some("EXTRACTOR_TIMEOUT")]_vars
  /\ \A i \in Ids : (i \in DOMAIN jobs /\ hung[i]) ~> (Terminal(i) \/ ~hung[i])
  /\ [](\A i \in DOMAIN jobs : (Terminal(i) /\ hung[i]) =>
          /\ jobs[i].status = "FAILED"
          /\ jobs[i].error_code = Some("EXTRACTOR_TIMEOUT")
          /\ jobs[i].error_message = Some(TimeoutError.str))

\* A job whose attempts all timed out, one retry among them, is FAILED.
C7_Witness ==
  \E i \in DOMAIN jobs :
    /\ jobs[i].status = "FAILED" /\ hung[i] /\ tried[i] >= 2
    /\ jobs[i].error_code = Some("EXTRACTOR_TIMEOUT")

\* C8: when the retries are exhausted the row the worker commits is FAILED,
\* has every result field null, and has the code and message of the failure of
\* this attempt: EXTRACTOR_TIMEOUT for a timeout, the failure's own code and
\* message for an ExtractorFailure, EXTRACTOR_ERROR and str(ex) for the rest.
C8_FinalError ==
  /\ (wpc = "commit" /\ ex # None) =>
       /\ Get(attempts, wid, 0) > max_retries
       /\ req.status = "FAILED"
       /\ \A k \in ResultFields : req[k] = None
       /\ ex[1].type = "TimeoutError" =>
            /\ req.error_code = Some("EXTRACTOR_TIMEOUT")
            /\ req.error_message = Some(ex[1].str)
       /\ ex[1].type = "ExtractorFailure" =>
            /\ req.error_code = Some(ex[1].code)
            /\ req.error_message = Some(ex[1].message)
       /\ ex[1].type \notin {"TimeoutError", "ExtractorFailure"} =>
            /\ req.error_code = Some("EXTRACTOR_ERROR")
            /\ req.error_message = Some(ex[1].str)
  /\ \A i \in DOMAIN jobs :
       (Get(attempts, i, 0) > max_retries /\ ~(wid = i /\ wpc = "commit")) =>
         jobs[i].status = "FAILED"
  /\ \A i \in DOMAIN jobs : jobs[i].status = "FAILED" =>
       /\ \A k \in ResultFields : jobs[i][k] = None
       /\ <<jobs[i].error_code[1], jobs[i].error_message[1]>> \in
            { <<"EXTRACTOR_TIMEOUT", TimeoutError.str>>,
              <<ExtractorFailure.code, ExtractorFailure.message>>,
              <<"EXTRACTOR_ERROR", OtherFault.str>> }

\* A job is stored as FAILED with the generic code after a fault that is
\* neither a timeout nor an ExtractorFailure.
C8_Witness ==
  \E i \in DOMAIN jobs :
    /\ jobs[i].status = "FAILED"
    /\ jobs[i].error_code = Some("EXTRACTOR_ERROR")
    /\ jobs[i].error_message = Some(OtherFault.str)

\* C9: with the worker running and the threads scheduled fairly, every job
\* in the store is eventually COMPLETED or FAILED, whatever its attempts give.
C9_EventuallyTerminal ==
  \A i \in Ids : (i \in DOMAIN jobs) ~> Terminal(i)

\* A job ends COMPLETED after a failed attempt that was not a timeout.
C9_Witness ==
  \E i \in DOMAIN jobs :
    jobs[i].status = "COMPLETED" /\ tried[i] >= 2 /\ ~hung[i] /\ abandoned = 0

\* C10: a GET response for a stored id has a result exactly when its status
\* is COMPLETED and an error exactly when its status is FAILED (so both are
\* null when it is PENDING); an id not in the store gets the not-found answer.
C10_FetchShape ==
  out.op = "GET" =>
    /\ out.status = "NOT_FOUND" <=> out.request_id \notin DOMAIN jobs
    /\ out.status # "NOT_FOUND" =>
         /\ out.status \in {"PENDING", "COMPLETED", "FAILED"}
         /\ out.result # None <=> out.status = "COMPLETED"
         /\ out.error # None <=> out.status = "FAILED"
    /\ out.status = "NOT_FOUND" => out.result = None /\ out.error = None

\* A GET answers PENDING, both objects null, for a job that became COMPLETED
\* after the last read of the poll window.
C10_Witness ==
  /\ out.op = "GET" /\ out.status = "PENDING"
  /\ out.result = None /\ out.error = None
  /\ out.request_id \in DOMAIN jobs
  /\ jobs[out.request_id].status = "COMPLETED"

\* The job ids on a queue, in order (the sentinel is no job id).
IdsOn(queue) == SelectSeq(queue, LAMBDA x : x # StopSentinel)

\* C11: once stop has been called on the worker, no job id is put on its
\* queue any more: from then on the ids on the queue only ever leave it.
C11_NoEnqueueAfterStop ==
  [][(stop_event /\ stop_event') => Len(IdsOn(q')) <= Len(IdsOn(q))]_vars

\* A call of run_extractor with the external backend selected has returned.
SelectorDone == call.fn = "run_extractor" /\ call.ret # None /\ backend = "llm"

\* C12: with the external backend selected, when the external call fails the
\* outcome of run_extractor is the outcome of the heuristic engine on the same
\* text, value or failure, and is never the failure of the external call.
C12_FallbackOnFailure ==
  (SelectorDone /\ ~call.llm.ok) =>
    /\ call.ret[1] = extract_from_text(call.text)
    /\ call.ret[1] # call.llm
    /\ ~call.ret[1].ok => call.ret[1].error = ExtractorFailure

\* The external call failed and run_extractor returned the number the
\* heuristic engine found.
C12_Witness ==
  /\ SelectorDone /\ ~call.llm.ok
  /\ call.ret[1].ok /\ call.ret[1].value.invoice_number = Some("INV-1")

\* The string fields of the result.
StringFields == ResultFields \ {"total_amount"}

\* C13 as claimed: with the external call and the heuristic engine both
\* succeeding, each field of the result is the external value when that value
\* is non-null, and the heuristic value otherwise.
C13_MergeNonNull ==
  (SelectorDone /\ call.llm.ok /\ call.ret[1].ok) =>
    \A k \in ResultFields :
      call.ret[1].value[k] =
        IF call.llm.value[k] # None THEN call.llm.value[k]
        ELSE extract_from_text(call.text).value[k]

\* C13 as amended: each string field of the result is the external value when
\* that value is neither null nor empty, and the heuristic value otherwise;
\* total_amount is the external amount when that is non-null, an external 0
\* included, and the heuristic amount otherwise.
C13_MergeTruthy ==
  (SelectorDone /\ call.llm.ok /\ call.ret[1].ok) =>
    /\ \A k \in StringFields :
         call.ret[1].value[k] =
           IF call.llm.value[k] \notin {None, Some("")} THEN call.llm.value[k]
           ELSE extract_from_text(call.text).value[k]
    /\ call.ret[1].value.total_amount =
         IF call.llm.value.total_amount # None THEN call.llm.value.total_amount
         ELSE extract_from_text(call.text).value.total_amount

\* The external amount 0 is kept over the heuristic 45, and the empty
\* external number gives way to the heuristic one.
C13_Witness ==
  /\ SelectorDone /\ call.llm.ok /\ call.ret[1].ok
  /\ call.llm.value.total_amount = Some(0) /\ call.text.amount = Some(45)
  /\ call.ret[1].value.total_amount = Some(0)
  /\ call.llm.value.invoice_number = Some("") /\ call.text.number = Some("INV-1")
  /\ call.ret[1].value.invoice_number = Some("INV-1")

\* _extract_date_iso has returned.
DateDone == call.fn = "_extract_date_iso" /\ call.ret # None

\* C14: a text whose only date is not a date of the calendar, written in
\* either form (2024-02-30, or April 31, 2024), gives no date: the result of
\* _extract_date_iso is null.
C14_InvalidDateGivesNone ==
  (DateDone /\ ~ValidDate(call.y, call.m, call.d)) => call.ret[1] = None

\* C15: a calendar date written "Month D, YYYY", the name in full or cut to
\* three letters, in any letter case, in a text with no YYYY-MM-DD date, is
\* given as YYYY-MM-DD.
C15_MonthNameConverted ==
  (DateDone /\ call.form = "month" /\ ValidDate(call.y, call.m, call.d)) =>
    call.ret[1] = Some(IsoText(call.y, call.m, call.d))

\* amount_val has returned for one matched number.
AmountDone == call.fn = "amount_val" /\ call.ret # None
DigitsOf(str) == SelectSeq(str, LAMBDA c : c \in DigitSet)
LastMark(raw_number) ==
  IF rfind(raw_number, ",") > rfind(raw_number, ".") THEN "," ELSE "."
\* The number read with the mark at position pos as its decimal point and
\* every other mark or blank as a separator of thousands.
ReadWithPoint(raw_number, pos) ==
  Float(DigitsOf(SubSeq(raw_number, 1, pos - 1)),
        DigitsOf(SubSeq(raw_number, pos + 1, Len(raw_number))))

\* C16: for a matched number with both a comma and a dot, the amount, when
\* there is one, is the number read with its last mark as the decimal point
\* and the other marks as separators of thousands, so 1.234,56 and 1,234.56
\* both give 1234.56; there is an amount whenever the last mark occurs once
\* and the number has no white space; a number that does not parse gives no
\* amount (it is skipped) and no failure.
C16_LastMarkIsDecimal ==
  (AmountDone /\ "," \in Range(call.raw) /\ "." \in Range(call.raw)) =>
    LET pos == rfind(call.raw, LastMark(call.raw))
    IN  /\ call.ret[1] \in {None, Some(ReadWithPoint(call.raw, pos))}
        /\ (Count(call.raw, LastMark(call.raw)) = 1 /\ Range(call.raw) \cap SpaceSet = {})
             => call.ret[1] # None
        /\ call.raw \in {<<"1", ".", "2", "3", "4", ",", "5", "6">>,
                          <<"1", ",", "2", "3", "4", ".", "5", "6">>}
             => call.ret[1] = Some([whole |-> <<"1", "2", "3", "4">>, frac |-> <<"5", "6">>])

\* 1.234,56 was read as 1234.56.
C16_Witness ==
  /\ AmountDone
  /\ call.raw = <<"1", ".", "2", "3", "4", ",", "5", "6">>
  /\ call.ret[1] = Some([whole |-> <<"1", "2", "3", "4">>, frac |-> <<"5", "6">>])

\* _extract_currency_and_amount has returned.
ExtractAmountDone == call.fn = "_extract_currency_and_amount" /\ call.ret # None
\* The pairs collected from the candidate lines of the text of the call.
Collected == parsed_candidates(Candidates(call.lines))

\* C17: the currency and amount returned are those of a collected pair whose
\* amount no collected pair exceeds and every earlier collected pair is below
\* (the first of the largest); both are null when no pair was collected; the
\* lines "Total: $45.00" and "Subtotal: $40.00" give 45.00.
C17_LargestAmountWins ==
  ExtractAmountDone =>
    /\ Collected = <<>> => call.ret[1] = [currency |-> None, total_amount |-> None]
    /\ Collected # <<>> =>
         \E j \in DOMAIN Collected :
           /\ call.ret[1] = [currency |-> Collected[j].currency,
                             total_amount |-> Some(Collected[j].amount)]
           /\ \A k \in DOMAIN Collected : ~Greater(Collected[k].amount, Collected[j].amount)
           /\ \A k \in 1..(j - 1) : Greater(Collected[j].amount, Collected[k].amount)
    /\ [i \in DOMAIN call.lines |-> call.lines[i].text] = <<"Total: $45.00", "Subtotal: $40.00">>
         => call.ret[1] = [currency |-> Some("USD"),
                           total_amount |-> Some([whole |-> <<"4", "5">>, frac |-> <<>>])]

\* Two collected pairs have the largest amount and different currencies, and
\* the currency returned is that of the first.
C17_Witness ==
  /\ ExtractAmountDone
  /\ \E j, k \in DOMAIN Collected :
       /\ j < k
       /\ Collected[j].amount = Collected[k].amount
       /\ Collected[j].currency # Collected[k].currency
       /\ \A i \in DOMAIN Collected : ~Greater(Collected[i].amount, Collected[j].amount)
       /\ \A i \in 1..(j - 1) : Greater(Collected[j].amount, Collected[i].amount)
       /\ call.ret[1].currency = Collected[j].currency

\* Job i is PENDING in the middle of its retries: each of its attempts failed
\* and they were no more than max_retries.
MidRetry(i) ==
  /\ i \in DOMAIN jobs /\ jobs[i].status = "PENDING"
  /\ allfail[i] /\ tried[i] >= 1 /\ tried[i] <= max_retries

\* C18: a restart empties the attempt counters, and a job that is PENDING in
\* the middle of its retries after a restart is attempted again: it comes to
\* be COMPLETED or FAILED, or to have a failed attempt counted anew.
C18_RetriedAfterRestart ==
  /\ [][restarts' # restarts => attempts' = <<>>]_vars
  /\ \A i \in Ids :
       (restarts >= 1 /\ MidRetry(i)) ~> (Terminal(i) \/ Get(attempts, i, 0) >= 1)

\* The result columns of a row, as the dict an extraction returns.
ResultOf(r) == [k \in ResultFields |-> r[k]]

\* A stored row is whole: PENDING with every result and error column null,
\* COMPLETED with null error columns and a doc_type, or FAILED with null
\* result columns and both error columns set.
Whole(r) ==
  /\ r.status = "PENDING" => \A k \in ResultFields \cup ErrorFields : r[k] = None
  /\ r.status = "COMPLETED" => r.doc_type # None /\ \A k \in ErrorFields : r[k] = None
  /\ r.status = "FAILED" =>
       (\A k \in ResultFields : r[k] = None) /\ (\A k \in ErrorFields : r[k] # None)

\* C19: every step that changes the store leaves every row whole, so no
\* reader of the store ever finds a partial one; the status of a job and its
\* result and error columns change in the same step and in no other; and the
\* step that makes a job COMPLETED stores the result of one single run of the
\* extractor on its text.
C19_AtomicOutcome ==
  [][jobs' # jobs =>
       /\ \A i \in DOMAIN jobs' : Whole(jobs'[i])
       /\ \A i \in DOMAIN jobs :
            /\ (\E k \in ResultFields \cup ErrorFields : jobs'[i][k] # jobs[i][k])
                 <=> jobs'[i].status # jobs[i].status
            /\ (jobs'[i].status = "COMPLETED" /\ jobs[i].status # "COMPLETED") =>
                 \E llm \in LLMOutcomes :
                   run_extractor(jobs[i].document_text, llm) = Return(ResultOf(jobs'[i]))]_vars

\* A job is COMPLETED on its second attempt with a merged result: the
\* currency of the external backend and the number of the heuristic engine.
C19_Witness ==
  \E i \in DOMAIN jobs :
    /\ jobs[i].status = "COMPLETED" /\ tried[i] >= 2
    /\ jobs[i].currency = Some("EUR") /\ jobs[i].invoice_number = Some("INV-1")
    /\ jobs[i].error_code = None

\* C20: a failed attempt (an error of the attempt thread, or the budget
\* elapsing) whose count, once incremented, is at most max_retries changes
\* no stored row, ends the worker's pass with nothing to commit, appends the
\* id of the job to the queue once, and changes the attempt count of that id
\* (by one) and of no other.
C20_RetryFrame ==
  [][(/\ wpc = "join" /\ wpc' # "join"
      /\ (thr.alive \/ ~thr.out[1].ok)
      /\ Get(attempts, wid, 0) + 1 <= max_retries) =>
       /\ jobs' = jobs
       /\ wpc' = "get" /\ req' = NoRow
       /\ q' = Append(q, wid)
       /\ Get(attempts', wid, 0) = Get(attempts, wid, 0) + 1
       /\ \A j \in Ids \ {wid} : Get(attempts', j, 0) = Get(attempts, j, 0)]_vars

\* After one failed attempt that was no timeout the job is PENDING, null in
\* every result and error column, and back on the queue with a count of 1.
C20_Witness ==
  \E i \in DOMAIN jobs :
    /\ jobs[i] = NewRow(i, jobs[i].idempotency_key, jobs[i].document_text)
    /\ Get(attempts, i, 0) = 1 /\ tried[i] = 1 /\ ~hung[i]
    /\ Len(SelectSeq(q, LAMBDA x : x = i)) = 1
    /\ wpc = "get"

\* The worker has loaded the id it dequeued and found no job to process: the
\* job is missing, or its status is not PENDING.
NothingToDo == wid \notin DOMAIN jobs \/ jobs[wid].status # "PENDING"

\* C21: when the job of the id the worker dequeued is missing or is not
\* PENDING, the worker's step starts no attempt thread, ends the pass, and
\* changes no stored row, no attempt counter and no queue entry.
C21_SkipChangesNothing ==
  [][(wpc = "load" /\ wpc' # "load" /\ NothingToDo) =>
       /\ thr' = NoThread /\ thr = NoThread
       /\ wpc' = "get" /\ req' = NoRow
       /\ jobs' = jobs
       /\ attempts' = attempts /\ tried' = tried
       /\ q' = q]_vars

\* A job was ended by another writer while its id was on the queue: the id
\* has been dequeued, the queue is empty, and the job never had an attempt.
C21_Witness ==
  /\ wpc = "get" /\ q = <<>> /\ \A c \in Callers : sub[c].pc = "idle"
  /\ \E i \in DOMAIN jobs :
       /\ jobs[i].status = "FAILED" /\ jobs[i].error_code = None
       /\ enq[jobs[i].idempotency_key] = 1
       /\ tried[i] = 0 /\ attempts = <<>>

\* C22: a step of a GET handler, and a POST response for an existing job
\* (found at once or after losing the race), changes no stored row, no queue
\* entry and no attempt counter; no row is ever removed, and the id, the
\* idempotency_key and the document_text of a row never change; a new row is
\* PENDING with null columns; and a stored row changes only in the step in
\* which the worker commits the pass for the id it dequeued.
C22_OnlyWorkerWrites ==
  [][/\ (fet' # fet \/ (out'.op = "POST" /\ out'.via \in {"hit", "race"})) =>
          jobs' = jobs /\ q' = q /\ attempts' = attempts
     /\ \A i \in DOMAIN jobs :
          /\ i \in DOMAIN jobs'
          /\ jobs'[i].id = jobs[i].id
          /\ jobs'[i].idempotency_key = jobs[i].idempotency_key
          /\ jobs'[i].document_text = jobs[i].document_text
          /\ jobs'[i] # jobs[i] => (wpc = "commit" /\ wid = i /\ wpc' = "get")
     /\ \A i \in DOMAIN jobs' \ DOMAIN jobs :
          jobs'[i] = NewRow(i, jobs'[i].idempotency_key, jobs'[i].document_text)]_vars

\* A GET has polled and answered PENDING, and a second POST with the key of
\* the one stored job has been answered: the job is as it was created, and
\* its id is on the queue once or in the worker's hand.
C22_Witness ==
  /\ out.op = "GET" /\ out.status = "PENDING" /\ poll_attempts >= 1
  /\ calls = 2 /\ \A c \in Callers : sub[c].pc = "idle"
  /\ \E i \in Ids :
       /\ DOMAIN jobs = {i} /\ out.request_id = i
       /\ jobs[i] = NewRow(i, jobs[i].idempotency_key, jobs[i].document_text)
       /\ (q = <<i>> /\ wid = 0) \/ (q = <<>> /\ wid = i)

\* Queue a is the beginning of queue b: nothing was removed from it.
Prefix(a, b) == Len(a) <= Len(b) /\ SubSeq(b, 1, Len(a)) = a

\* C23: whatever calls of start and stop are made, at most one _run thread
\* is alive; an item leaves the queue only from its head, taken by that
\* thread at its get; and an attempt is decided only by that thread leaving
\* its join, for the one id it holds: never two at a time.
C23_SingleConsumer ==
  /\ [](running <= 1 /\ (running = 1 <=> wpc # "exited"))
  /\ [][~Prefix(q, q') =>
          /\ running = 1 /\ wpc = "get"
          /\ q' = Tail(q)
          /\ wpc' \in {"load", "exited"}
          /\ wpc' = "load" => wid' = Head(q)]_vars
  /\ [][tried' # tried =>
          /\ running = 1 /\ wpc = "join" /\ wpc' # "join"
          /\ tried' = [tried EXCEPT ![wid] = @ + 1]]_vars

\* stop was called while the worker was processing a job and start after it:
\* the thread is still alive, in its join, and start has started no other.
C23_Witness ==
  /\ lifecycle = <<"start", "stop", "start">>
  /\ running = 1 /\ wpc = "join" /\ stop_event
  /\ StopSentinel \in Range(q)

\* C24: the queue changes only by the worker taking its head or by one id
\* joining its tail, so ids leave in the order they came and the ones already
\* waiting keep their order; a retry puts the id of the failed job at the
\* tail, behind every id then waiting; and a POST handler about to enqueue,
\* like a worker about to decide an attempt, can take its step whatever the
\* queue holds.
C24_Fifo ==
  /\ [][q' # q =>
          \/ q # <<>> /\ q' = Tail(q) /\ wpc = "get" /\ wid' = Head(q)
          \/ \E x \in Ids : q' = Append(q, x)]_vars
  /\ [][(wpc = "join" /\ wpc' = "get") =>
          /\ q' = Append(q, wid)
          /\ \A j \in Range(q) : \E m \in DOMAIN q' : q'[m] = j /\ m < Len(q')]_vars
  /\ [](\A c \in Callers : sub[c].pc = "enqueue" => ENABLED SubmitEnqueue(c))
  /\ []((wpc = "join" /\ thr.alive) => ENABLED JoinTimeout)
  /\ []((wpc = "join" /\ ~thr.alive) => ENABLED JoinDone)

\* A failed job is back on the queue behind the id of another job that was
\* waiting, not yet attempted, when it failed.
C24_Witness ==
  /\ wpc = "get" /\ Len(q) = 2
  /\ q[1] # q[2]
  /\ tried[q[1]] = 0
  /\ tried[q[2]] = 1 /\ Get(attempts, q[2], 0) = 1

\* C25: when the worker leaves its join with the attempt thread ended by a
\* failure, the failure the retry policy gets is that very failure: the
\* attempt counts as failed and as no timeout, a retry puts the id back, and
\* a final failure stores the code and message of that failure; with the
\* thread ended by a value there is no failure at all; and a timeout is what
\* the worker gets only when the thread is alive as the join returns.
C25_FailureNotTimeout ==
  [][(wpc = "join" /\ wpc' # "join") =>
       /\ (~thr.alive /\ ~thr.out[1].ok) =>
            /\ thr.out[1].error # TimeoutError
            /\ allfail'[wid] = allfail[wid] /\ ~hung'[wid]
            /\ attempts' # attempts
            /\ wpc' = "get" => q' = Append(q, wid)
            /\ wpc' = "commit" =>
                 /\ ex' = Some(thr.out[1].error)
                 /\ req' = FailedRow(req, thr.out[1].error)
                 /\ req'.error_message # Some(TimeoutError.str)
       /\ (~thr.alive /\ thr.out[1].ok) =>
            /\ wpc' = "commit" /\ ex' = None /\ req'.status = "COMPLETED"
            /\ attempts' = attempts /\ ~allfail'[wid]
       /\ (ex' = Some(TimeoutError) \/ (attempts' # attempts /\ hung[wid] /\ hung'[wid])) =>
            thr.alive]_vars

\* A job is FAILED with the message of the failure the heuristic engine
\* raised in its last attempt, after an earlier attempt that timed out.
C25_Witness ==
  \E i \in DOMAIN jobs :
    /\ jobs[i].status = "FAILED" /\ tried[i] >= 2 /\ abandoned > 0
    /\ jobs[i].error_code = Some(ExtractorFailure.code)
    /\ jobs[i].error_message = Some(ExtractorFailure.message)

\* C26: the step in which an abandoned attempt thread ends, whenever it
\* comes (with the worker idle, in a later attempt of the same job, or after
\* the job is COMPLETED or FAILED), changes no stored row, no attempt counter
\* and no queue entry, and nothing of the pass the worker is in: not the
\* attempt thread it waits for, nor the row it holds.
C26_AbandonedChangesNothing ==
  [][abandoned' < abandoned =>
       /\ jobs' = jobs
       /\ attempts' = attempts /\ tried' = tried
       /\ q' = q
       /\ thr' = thr /\ req' = req /\ wpc' = wpc /\ wid' = wid /\ ex' = ex]_vars

\* The one job of the store is FAILED after two attempts that both timed out;
\* one of the two abandoned threads has ended, the other is still running.
C26_Witness ==
  /\ abandoned = 1
  /\ \E i \in Ids :
       /\ DOMAIN jobs = {i}
       /\ jobs[i].status = "FAILED" /\ hung[i] /\ tried[i] = 2
       /\ jobs[i].error_message = Some(TimeoutError.str)

\* How often id i is on the queue or in the worker's hand.
Occurrences(i) == Len(SelectSeq(q, LAMBDA x : x = i)) + (IF wid = i THEN 1 ELSE 0)
\* The POST call that created job i has given its response.
SubmitReturned(i) == \A c \in Callers : ~(sub[c].pc = "enqueue" /\ sub[c].req_id = i)

\* C27: in a process that is not restarted, whatever calls of stop and start
\* are made, every id is at most once on the queue or in the worker's hand;
\* a PENDING job whose creating POST has answered is there exactly once; and
\* every id the worker dequeues is the id of a stored job that is PENDING.
C27_QueueHoldsPending ==
  /\ [](\A i \in Ids : Occurrences(i) <= 1)
  /\ [](\A i \in DOMAIN jobs :
          (jobs[i].status = "PENDING" /\ SubmitReturned(i)) => Occurrences(i) = 1)
  /\ [][(wpc = "get" /\ wpc' = "load") =>
          wid' \in DOMAIN jobs /\ jobs[wid'].status = "PENDING"]_vars

\* Two PENDING jobs whose POST calls have answered: one is back on the queue
\* after a failed attempt, the other is in the worker's hand.
C27_Witness ==
  /\ wpc = "join" /\ Len(q) = 1 /\ q[1] # wid /\ q[1] # StopSentinel
  /\ tried[q[1]] = 1 /\ jobs[q[1]].status = "PENDING" /\ jobs[wid].status = "PENDING"
  /\ \A c \in Callers : sub[c].pc = "idle"

\* C28: while the last call made on the worker is start, a _run thread is
\* alive; such a thread ends only by a later stop, never by a sentinel an
\* earlier stop left on the queue; and every job id then on the queue is
\* eventually dequeued, unless stop is called again.
C28_StartRevives ==
  /\ [](LastCall = "start" => running = 1)
  /\ [][(LastCall = "start" /\ lifecycle' = lifecycle) => running' >= running]_vars
  /\ \A i \in Ids :
       (LastCall = "start" /\ i \in Range(q)) ~> (LastCall = "stop" \/ i \notin Range(q))

====
